---- MODULE Spec2Model ----
(***************************************************************************)
(* Model of sequential-http-utils: the retry policy (lib/retry-config.js)  *)
(* and the retrying fetch loop (lib/fetch-retry.js).                       *)
(*                                                                         *)
(* Strings are sequences of one-character strings, so that                 *)
(* String.prototype.includes is a real substring test.  Real numbers are   *)
(* exact rationals: backoffMultiplier = num / MultDen, jitterFraction =    *)
(* num / FracDen, a Math.random() draw = num / RandDen.  Where a power     *)
(* leaves the range of the model's integers it is classified the way       *)
(* IEEE 754 binary64 arithmetic treats it: overflow to Infinity, and       *)
(* 0 * Infinity = NaN.                                                     *)
(***************************************************************************)
EXTENDS Integers, Sequences, FiniteSets, TLC

VARIABLES config, inv, call, snapshot

vars == <<config, inv, call, snapshot>>

-----------------------------------------------------------------------------
(* Bounds of the model *)

\* largest maxRetries of a policy
MaxRetriesBound == 2
\* longest failure code, failure message and marker of the policy sweep
MaxStrLen == 2
\* largest attemptNumber passed to shouldRetry / calculateDelay directly
MaxAttemptNumber == 5
\* Math.random() draws are k / RandDen, k in 0 .. RandDen-1
RandDen == 4

\* denominators of the rational encodings
MultDen == 2
FracDen == 10

\* largest binary exponent of a finite Number: 2^1023 is finite and
\* Math.pow(2, 1024) is Infinity
DoubleMaxExponent == 1023
\* an attempt number at which Math.pow(2, attemptNumber) overflows
LargeAttemptNumber == DoubleMaxExponent + 1

-----------------------------------------------------------------------------
(* Strings *)

ECONNREFUSED == <<"E","C","O","N","N","R","E","F","U","S","E","D">>
ENOTFOUND == <<"E","N","O","T","F","O","U","N","D">>
ETIMEDOUT == <<"E","T","I","M","E","D","O","U","T">>
EBADF == <<"E","B","A","D","F">>
EmptyString == << >>
\* 'Fetch failed after all retries'
FetchFailedMessage == <<"F","e","t","c","h"," ","f","a","i","l","e","d">>
\* a message that mentions a marker: 'connect ETIMEDOUT'
ConnectTimedOutMessage == <<"c","o","n","n","e","c","t"," ">> \o ETIMEDOUT
\* the message of the AbortError raised when the signal fires: 'aborted'
AbortedMessage == <<"a","b","o","r","t","e","d">>
\* 'errorCode.includes is not a function'
NotAFunctionMessage == <<"n","o","t"," ","a"," ","f","u","n","c","t","i","o","n">>
\* a message without any marker
PlainMessage == <<"f","a","i","l","e","d">>

Alphabet == {"E", "e", "T"}

RECURSIVE StringsOfLen(_)
StringsOfLen(n) ==
    IF n = 0 THEN {EmptyString}
    ELSE {Append(s, c) : s \in StringsOfLen(n - 1), c \in Alphabet}

Strings == UNION {StringsOfLen(n) : n \in 0..MaxStrLen}

\* String.prototype.includes(marker): case-sensitive substring test
Includes(str, marker) ==
    \E k \in 0..(Len(str) - Len(marker)) :
        SubSeq(str, k + 1, k + Len(marker)) = marker

-----------------------------------------------------------------------------
(* Values *)

\* null / absent arguments
NullStatus == -1
NullError ==
    [present |-> FALSE, code |-> EmptyString, codeNumber |-> 0,
     message |-> EmptyString, id |-> 0]
NullResponse == [present |-> FALSE, status |-> NullStatus, id |-> 0]

\* an Error object whose code is a string, or absent (the empty string);
\* id tells apart the failures of different attempts
Failure(code, message, id) ==
    [present |-> TRUE, code |-> code, codeNumber |-> 0,
     message |-> message, id |-> id]

\* the DOMException fetch rejects with when options.signal is aborted:
\* name 'AbortError', whose code is the number 20
AbortError(id) ==
    [present |-> TRUE, code |-> EmptyString, codeNumber |-> 20,
     message |-> AbortedMessage, id |-> id]

\* the TypeError raised by errorCode.includes when errorCode is a number
IncludesTypeError(id) == Failure(EmptyString, NotAFunctionMessage, id)

\* a Response object; id tells apart the responses of different attempts
Response(status, id) == [present |-> TRUE, status |-> status, id |-> id]

\* Response.ok
Ok(response) == response.status \in 200..299

\* new Error('Fetch failed after all retries')
GenericError == Failure(EmptyString, FetchFailedMessage, 0)

-----------------------------------------------------------------------------
(* RetryConfig *)

DefaultStatusCodes == {408, 429, 500, 502, 503, 504}
DefaultErrors == {ECONNREFUSED, ENOTFOUND, ETIMEDOUT}

\* new RetryConfig(): backoffMultiplier 2 = 4/MultDen, jitterFraction 0.1 = 1/FracDen
DefaultConfig ==
    [maxRetries |-> 3,
     initialDelayMs |-> 1000,
     maxDelayMs |-> 30000,
     backoffMultiplier |-> 2 * MultDen,
     jitterFraction |-> 1,
     retryableStatusCodes |-> DefaultStatusCodes,
     retryableErrors |-> DefaultErrors]

\* new RetryConfig(options): every field of options overrides the default
RetryConfig(options) ==
    [f \in DOMAIN DefaultConfig |->
        IF f \in DOMAIN options THEN options[f] ELSE DefaultConfig[f]]

\* What a caller holds of getConfig(): value is the returned object, and
\* sharesStatusCodes / sharesErrors tell whether its retryableStatusCodes /
\* retryableErrors is the very array object of the policy.
NoSnapshot ==
    [taken |-> FALSE, value |-> DefaultConfig,
     sharesStatusCodes |-> FALSE, sharesErrors |-> FALSE]

\* getConfig returning the policy's own arrays
GetConfigSharesArrays(cfg) ==
    [taken |-> TRUE,
     value |-> [maxRetries |-> cfg.maxRetries,
                initialDelayMs |-> cfg.initialDelayMs,
                maxDelayMs |-> cfg.maxDelayMs,
                backoffMultiplier |-> cfg.backoffMultiplier,
                jitterFraction |-> cfg.jitterFraction,
                retryableStatusCodes |-> cfg.retryableStatusCodes,
                retryableErrors |-> cfg.retryableErrors],
     sharesStatusCodes |-> TRUE,
     sharesErrors |-> TRUE]

\* getConfig(): a new object; the scalars are copied by value and each
\* array is spread into a new array
GetConfig(cfg) ==
    [taken |-> TRUE,
     value |-> [maxRetries |-> cfg.maxRetries,
                initialDelayMs |-> cfg.initialDelayMs,
                maxDelayMs |-> cfg.maxDelayMs,
                backoffMultiplier |-> cfg.backoffMultiplier,
                jitterFraction |-> cfg.jitterFraction,
                retryableStatusCodes |-> cfg.retryableStatusCodes,
                retryableErrors |-> cfg.retryableErrors],
     sharesStatusCodes |-> FALSE,
     sharesErrors |-> FALSE]

\* what a call of shouldRetry does: it returns a boolean or raises
Returns(value) == [threw |-> FALSE, value |-> value]
Throws == [threw |-> TRUE, value |-> FALSE]

\* errorCode = error.code || error.message || '' is a number
ErrorCodeIsNumber(error) == error.codeNumber # 0

\* errorCode = error.code || error.message || '' when it is a string
ErrorCodeString(error) ==
    IF error.code # EmptyString THEN error.code ELSE error.message

\* shouldRetry after the budget test: the classification of the error or
\* of the status.  Array.prototype.some calls errorCode.includes for the
\* first marker, which raises a TypeError when errorCode is a number.
RetryDecision(cfg, statusCode, error) ==
    IF error.present
    THEN IF ErrorCodeIsNumber(error)
         THEN IF cfg.retryableErrors = {} THEN Returns(FALSE) ELSE Throws
         ELSE Returns(\E code \in cfg.retryableErrors :
                         Includes(ErrorCodeString(error), code))
    ELSE IF statusCode # NullStatus /\ statusCode # 0
         THEN Returns(statusCode \in cfg.retryableStatusCodes)
         ELSE Returns(FALSE)

\* shouldRetry without the retry budget test
ShouldRetryNoBudget(cfg, statusCode, error, attemptNumber) ==
    RetryDecision(cfg, statusCode, error)

\* shouldRetry with the budget test attemptNumber > maxRetries
ShouldRetryOffByOne(cfg, statusCode, error, attemptNumber) ==
    IF attemptNumber > cfg.maxRetries THEN Returns(FALSE)
    ELSE RetryDecision(cfg, statusCode, error)

\* shouldRetry matching the markers against the code and the message
ShouldRetryCodeOrMessage(cfg, statusCode, error, attemptNumber) ==
    IF attemptNumber >= cfg.maxRetries THEN Returns(FALSE)
    ELSE IF error.present /\ ~ErrorCodeIsNumber(error)
         THEN Returns(\E code \in cfg.retryableErrors :
                         \/ Includes(error.code, code)
                         \/ Includes(error.message, code))
         ELSE RetryDecision(cfg, statusCode, error)

\* shouldRetry(statusCode, error, attemptNumber)
ShouldRetry(cfg, statusCode, error, attemptNumber) ==
    IF attemptNumber >= cfg.maxRetries THEN Returns(FALSE)
    ELSE RetryDecision(cfg, statusCode, error)

\* a Number: an integer number of milliseconds, or NaN
Number(value) == [isNaN |-> FALSE, value |-> value]
NaN == [isNaN |-> TRUE, value |-> 0]

\* Values of the intermediate results of calculateDelay: an exact rational
\* num / den; "huge", a finite value above every delay of the model;
\* "tiny", a positive value below 1 / (2 * any delay of the model);
\* Infinity; NaN.
Finite(num, den) == [kind |-> "finite", num |-> num, den |-> den]
Huge == [kind |-> "huge", num |-> 0, den |-> 1]
Tiny == [kind |-> "tiny", num |-> 0, den |-> 1]
Infinity == [kind |-> "infinity", num |-> 0, den |-> 1]
NotANumber == [kind |-> "nan", num |-> 0, den |-> 1]

RECURSIVE Pow(_, _)
Pow(b, n) == IF n = 0 THEN 1 ELSE b * Pow(b, n - 1)

Min(a, b) == IF a <= b THEN a ELSE b
Max(a, b) == IF a >= b THEN a ELSE b

\* Math.pow(backoffMultiplier, attemptNumber) for the multiplier
\* base / MultDen: exact up to MaxAttemptNumber.  At LargeAttemptNumber
\* (= 1024) a multiplier >= 2 gives at least 2^1024, which overflows to
\* Infinity; a multiplier in (1, 2) gives a finite value of at least
\* (1 + 1/MultDen)^1024; a multiplier in [1/MultDen, 1) gives a positive
\* value of at most (1 - 1/MultDen)^1024.
MathPow(base, attemptNumber) ==
    IF attemptNumber <= MaxAttemptNumber
    THEN Finite(Pow(base, attemptNumber), Pow(MultDen, attemptNumber))
    ELSE IF base = MultDen THEN Finite(1, 1)
    ELSE IF base >= 2 * MultDen
         THEN IF attemptNumber > DoubleMaxExponent THEN Infinity ELSE Huge
    ELSE IF base > MultDen THEN Huge
    ELSE Tiny

\* initialDelayMs * Math.pow(...): 0 * Infinity is NaN, 0 * x is 0
\* for every finite x
MathTimes(ms, x) ==
    IF x.kind = "finite" THEN Finite(ms * x.num, x.den)
    ELSE IF ms = 0
         THEN IF x.kind = "infinity" THEN NotANumber ELSE Finite(0, 1)
         ELSE x

\* Math.min(exponentialDelay, maxDelayMs): NaN when an argument is NaN
MathMin(x, ms) ==
    IF x.kind = "nan" THEN NotANumber
    ELSE IF x.kind \in {"infinity", "huge"} THEN Finite(ms, 1)
    ELSE IF x.kind = "tiny" THEN IF ms > 0 THEN Tiny ELSE Finite(0, 1)
    ELSE Finite(Min(x.num, ms * x.den), x.den)

\* calculateDelay(attemptNumber) with Math.random() = rnd / RandDen.
\* For cappedDelay = num / den:
\*   jitterAmount = num * jitterFraction / (den * FracDen),
\*   jitter = (2 rnd - RandDen) / RandDen * jitterAmount,
\*   cappedDelay + jitter = sumNum / sumDen.
\* NaN goes through every operation, Math.max(0, NaN) included.  For a
\* tiny cappedDelay, cappedDelay + jitter lies in [0, 2 * cappedDelay]
\* and its floor is 0.
CalculateDelay(cfg, attemptNumber, rnd) ==
    LET exponentialDelay ==
            MathTimes(cfg.initialDelayMs,
                      MathPow(cfg.backoffMultiplier, attemptNumber))
        cappedDelay == MathMin(exponentialDelay, cfg.maxDelayMs)
        sumNum == cappedDelay.num * (RandDen * FracDen
                                     + (2 * rnd - RandDen) * cfg.jitterFraction)
        sumDen == cappedDelay.den * RandDen * FracDen
    IN  IF cappedDelay.kind = "nan" THEN NaN
        ELSE IF cappedDelay.kind = "tiny" THEN Number(0)
        ELSE Number(Max(0, sumNum \div sumDen))

-----------------------------------------------------------------------------
(* fetchWithRetry: one record per invocation *)

NoResult == [kind |-> "none", response |-> NullResponse, error |-> NullError]
Returned(response) == [kind |-> "return", response |-> response, error |-> NullError]
Thrown(error) == [kind |-> "throw", response |-> NullResponse, error |-> error]

\* outcome of one physical attempt, as recorded in the history
ResponseOutcome(response) == [response |-> response, error |-> NullError]
FailureOutcome(error) == [response |-> NullResponse, error |-> error]

\* An invocation that has not been called yet.  aborted is
\* options.signal.aborted.  attempts, sleeps, retryChecks and outcomes are
\* history: the number of fetch() calls, of sleep() calls and of
\* shouldRetry() calls made so far and the outcome of every completed
\* attempt.
IdleInvocation ==
    [pc |-> "idle",
     aborted |-> FALSE,
     attempt |-> 0,
     lastError |-> NullError,
     lastResponse |-> NullResponse,
     delayMs |-> Number(0),
     result |-> NoResult,
     attempts |-> 0,
     sleeps |-> 0,
     retryChecks |-> 0,
     outcomes |-> << >>]

\* await fetch(url, options): the attempt is in flight
StartFetch(s) == [s EXCEPT !.pc = "fetching", !.attempts = @ + 1]

\* the code after the loop
AfterLoop(s) ==
    IF s.lastResponse.present
    THEN [s EXCEPT !.pc = "done", !.result = Returned(s.lastResponse)]
    ELSE [s EXCEPT !.pc = "done",
                   !.result = Thrown(IF s.lastError.present THEN s.lastError
                                     ELSE GenericError)]

\* the loop with the test attempt < maxRetries
LoopHeadOffByOne(cfg, s, rnd) ==
    IF s.attempt < cfg.maxRetries
    THEN IF s.attempt > 0
         THEN [s EXCEPT !.pc = "sleeping",
                        !.delayMs = CalculateDelay(cfg, s.attempt - 1, rnd),
                        !.sleeps = @ + 1]
         ELSE StartFetch(s)
    ELSE AfterLoop(s)

\* the loop sleeping calculateDelay(attempt), the delay of the upcoming
\* attempt's index
LoopHeadDelayOfUpcoming(cfg, s, rnd) ==
    IF s.attempt <= cfg.maxRetries
    THEN IF s.attempt > 0
         THEN [s EXCEPT !.pc = "sleeping",
                        !.delayMs = CalculateDelay(cfg, s.attempt, rnd),
                        !.sleeps = @ + 1]
         ELSE StartFetch(s)
    ELSE AfterLoop(s)

\* the loop test and the head of the body, up to the next await
LoopHead(cfg, s, rnd) ==
    IF s.attempt <= cfg.maxRetries
    THEN IF s.attempt > 0
         THEN [s EXCEPT !.pc = "sleeping",
                        !.delayMs = CalculateDelay(cfg, s.attempt - 1, rnd),
                        !.sleeps = @ + 1]
         ELSE StartFetch(s)
    ELSE AfterLoop(s)

\* the try block raising a failure for a response that is not retried
OnResponseThrows(cfg, s, response, rnd) ==
    LET t == [s EXCEPT !.lastResponse = response,
                       !.outcomes = Append(@, ResponseOutcome(response))]
    IN  IF Ok(response)
        THEN [t EXCEPT !.pc = "done", !.result = Returned(response)]
        ELSE LET u == [t EXCEPT !.retryChecks = @ + 1]
             IN  IF ~ShouldRetry(cfg, response.status, NullError, s.attempt).value
                 THEN [u EXCEPT !.pc = "done",
                                !.result = Thrown(Failure(EmptyString, PlainMessage,
                                                          response.id))]
                 ELSE LoopHead(cfg, [u EXCEPT !.attempt = @ + 1], rnd)

\* the try block asking shouldRetry before looking at response.ok
OnResponseRetryFirst(cfg, s, response, rnd) ==
    LET t == [s EXCEPT !.lastResponse = response,
                       !.outcomes = Append(@, ResponseOutcome(response)),
                       !.retryChecks = @ + 1]
    IN  IF ShouldRetry(cfg, response.status, NullError, s.attempt).value
        THEN LoopHead(cfg, [t EXCEPT !.attempt = @ + 1], rnd)
        ELSE [t EXCEPT !.pc = "done", !.result = Returned(response)]

\* the try block once fetch has resolved with response; shouldRetry
\* does not raise when it is passed no error
OnResponse(cfg, s, response, rnd) ==
    LET t == [s EXCEPT !.lastResponse = response,
                       !.outcomes = Append(@, ResponseOutcome(response))]
    IN  IF Ok(response)
        THEN [t EXCEPT !.pc = "done", !.result = Returned(response)]
        ELSE LET u == [t EXCEPT !.retryChecks = @ + 1]
             IN  IF ~ShouldRetry(cfg, response.status, NullError, s.attempt).value
                 THEN [u EXCEPT !.pc = "done", !.result = Returned(response)]
                 ELSE LoopHead(cfg, [u EXCEPT !.attempt = @ + 1], rnd)

\* the catch block leaving the loop instead of rethrowing
OnErrorBreak(cfg, s, error, rnd) ==
    LET t == [s EXCEPT !.lastError = error,
                       !.outcomes = Append(@, FailureOutcome(error)),
                       !.retryChecks = @ + 1]
        decision == ShouldRetry(cfg, NullStatus, error, s.attempt)
    IN  IF decision.threw
        THEN [t EXCEPT !.pc = "done", !.result = Thrown(IncludesTypeError(error.id))]
        ELSE IF ~decision.value
             THEN AfterLoop(t)
             ELSE LoopHead(cfg, [t EXCEPT !.attempt = @ + 1], rnd)

\* the catch block going on to the next attempt whatever shouldRetry says
OnErrorRetriesAnyway(cfg, s, error, rnd) ==
    LET t == [s EXCEPT !.lastError = error,
                       !.outcomes = Append(@, FailureOutcome(error)),
                       !.retryChecks = @ + 1]
        decision == ShouldRetry(cfg, NullStatus, error, s.attempt)
    IN  IF decision.threw
        THEN [t EXCEPT !.pc = "done", !.result = Thrown(IncludesTypeError(error.id))]
        ELSE LoopHead(cfg, [t EXCEPT !.attempt = @ + 1], rnd)

\* the catch block dropping a failure that is not retried
OnErrorSwallows(cfg, s, error, rnd) ==
    LET t == [s EXCEPT !.lastError = error,
                       !.outcomes = Append(@, FailureOutcome(error)),
                       !.retryChecks = @ + 1]
        decision == ShouldRetry(cfg, NullStatus, error, s.attempt)
    IN  IF decision.threw
        THEN [t EXCEPT !.pc = "done", !.result = Thrown(IncludesTypeError(error.id))]
        ELSE IF ~decision.value
             THEN [t EXCEPT !.pc = "done"]
             ELSE LoopHead(cfg, [t EXCEPT !.attempt = @ + 1], rnd)

\* the catch block once fetch has rejected with error; a TypeError raised
\* by shouldRetry inside the catch block leaves fetchWithRetry
OnError(cfg, s, error, rnd) ==
    LET t == [s EXCEPT !.lastError = error,
                       !.outcomes = Append(@, FailureOutcome(error)),
                       !.retryChecks = @ + 1]
        decision == ShouldRetry(cfg, NullStatus, error, s.attempt)
    IN  IF decision.threw
        THEN [t EXCEPT !.pc = "done", !.result = Thrown(IncludesTypeError(error.id))]
        ELSE IF ~decision.value
             THEN [t EXCEPT !.pc = "done", !.result = Thrown(error)]
             ELSE LoopHead(cfg, [t EXCEPT !.attempt = @ + 1], rnd)

\* what fetch() can produce: a response or a transport failure
FetchStatuses == {0, 200, 404, 503}
FetchFailures(id) ==
    {Failure(ECONNREFUSED, PlainMessage, id),
     Failure(EBADF, ConnectTimedOutMessage, id),
     Failure(EmptyString, ConnectTimedOutMessage, id)}

\* what fetch(url, options) rejects with: the AbortError once
\* options.signal is aborted, a transport failure otherwise
Rejections(s) ==
    IF s.aborted THEN {AbortError(s.attempts)} ELSE FetchFailures(s.attempts)

RandomDraws == 0..(RandDen - 1)

\* fetchWithRetry using up the policy's own maxRetries
InvokeWritesPolicy(i) ==
    /\ inv[i].pc = "idle"
    /\ \E rnd \in RandomDraws :
          inv' = [inv EXCEPT ![i] = LoopHead(config, inv[i], rnd)]
    /\ config' = [config EXCEPT !.maxRetries = 0]
    /\ UNCHANGED <<call, snapshot>>

\* fetchWithRetry(url, options, retryConfig) is called
Invoke(i) ==
    /\ inv[i].pc = "idle"
    /\ \E rnd \in RandomDraws :
          inv' = [inv EXCEPT ![i] = LoopHead(config, inv[i], rnd)]
    /\ UNCHANGED <<config, call, snapshot>>

\* the attempt in flight resolves, with the loop counter kept in one
\* variable that all invocations share
FetchResolveSharedAttempt(i) ==
    /\ inv[i].pc = "fetching"
    /\ ~inv[i].aborted
    /\ \E status \in FetchStatuses, rnd \in RandomDraws :
          LET shared == CHOOSE a \in {inv[j].attempt : j \in DOMAIN inv} :
                            \A j \in DOMAIN inv : a >= inv[j].attempt
          IN  inv' = [inv EXCEPT ![i] =
                         OnResponse(config, [inv[i] EXCEPT !.attempt = shared],
                                    Response(status, inv[i].attempts), rnd)]
    /\ UNCHANGED <<config, call, snapshot>>

\* the attempt in flight resolves with a response; a fetch whose signal
\* is aborted does not resolve
FetchResolve(i) ==
    /\ inv[i].pc = "fetching"
    /\ ~inv[i].aborted
    /\ \E status \in FetchStatuses, rnd \in RandomDraws :
          inv' = [inv EXCEPT ![i] =
                     OnResponse(config, inv[i],
                                Response(status, inv[i].attempts), rnd)]
    /\ UNCHANGED <<config, call, snapshot>>

\* the attempt in flight rejects
FetchReject(i) ==
    /\ inv[i].pc = "fetching"
    /\ \E error \in Rejections(inv[i]), rnd \in RandomDraws :
          inv' = [inv EXCEPT ![i] = OnError(config, inv[i], error, rnd)]
    /\ UNCHANGED <<config, call, snapshot>>

\* the timer of sleep(delayMs) fires and the next attempt starts; sleep
\* does not look at options.signal
SleepDone(i) ==
    /\ inv[i].pc = "sleeping"
    /\ inv' = [inv EXCEPT ![i] = StartFetch(inv[i])]
    /\ UNCHANGED <<config, call, snapshot>>

\* the caller aborts options.signal while an attempt is in flight or while
\* the invocation is suspended in sleep
Abort(i) ==
    /\ inv[i].pc \in {"fetching", "sleeping"}
    /\ ~inv[i].aborted
    /\ inv' = [inv EXCEPT ![i].aborted = TRUE]
    /\ UNCHANGED <<config, call, snapshot>>

-----------------------------------------------------------------------------
(* Specification of one fetchWithRetry invocation *)

\* no method of the policy is called directly
NoCall ==
    [op |-> "none", statusCode |-> NullStatus, error |-> NullError,
     attemptNumber |-> 0, rnd |-> 0, done |-> FALSE,
     retry |-> Returns(FALSE), delay |-> Number(0)]

\* policies the invocations are run with
FetchConfigs ==
    {DefaultConfig} \cup
    {RetryConfig([maxRetries |-> m, retryableStatusCodes |-> sc,
                  retryableErrors |-> re, maxDelayMs |-> md])
        : m \in 0..MaxRetriesBound,
          sc \in {DefaultStatusCodes, {200, 404}, {0, 503}},
          re \in {DefaultErrors, {EBADF}},
          md \in {30000, 1500}}

Init ==
    /\ config \in FetchConfigs
    /\ inv = [i \in {1} |-> IdleInvocation]
    /\ call = NoCall
    /\ snapshot = NoSnapshot

Next ==
    \/ \E i \in DOMAIN inv : Invoke(i)
    \/ \E i \in DOMAIN inv : FetchResolve(i)
    \/ \E i \in DOMAIN inv : FetchReject(i)
    \/ \E i \in DOMAIN inv : SleepDone(i)
    \/ \E i \in DOMAIN inv : Abort(i)

Spec == Init /\ [][Next]_vars

\* every attempt in flight eventually resolves or rejects and every timer
\* of sleep eventually fires
AttemptsAndDelaysComplete ==
    /\ WF_vars(\E i \in DOMAIN inv : FetchResolve(i) \/ FetchReject(i))
    /\ WF_vars(\E i \in DOMAIN inv : SleepDone(i))

SpecLive == Init /\ [][Next]_vars /\ AttemptsAndDelaysComplete

-----------------------------------------------------------------------------
(* Specification of one invocation with any policy the constructor accepts:
   it stores options.maxRetries as it is, a negative number included *)

AnyConfigs ==
    {RetryConfig([maxRetries |-> m]) : m \in -1..MaxRetriesBound}

InitAnyConfig ==
    /\ config \in AnyConfigs
    /\ inv = [i \in {1} |-> IdleInvocation]
    /\ call = NoCall
    /\ snapshot = NoSnapshot

SpecAnyConfig == InitAnyConfig /\ [][Next]_vars

-----------------------------------------------------------------------------
(* Specification of two concurrent invocations that share one policy, as
   two calls of the function createFetchWithRetry returns do *)

\* jitterFraction 0 makes a delay independent of the random draw
ConcurrentConfigs ==
    {RetryConfig([maxRetries |-> m, jitterFraction |-> 0])
        : m \in 1..MaxRetriesBound}

InitConcurrent ==
    /\ config \in ConcurrentConfigs
    /\ inv = [i \in {1, 2} |-> IdleInvocation]
    /\ call = NoCall
    /\ snapshot = NoSnapshot

SpecConcurrent == InitConcurrent /\ [][Next]_vars

-----------------------------------------------------------------------------
(* Specification of direct calls of the policy's methods *)

\* policies whose retry fields vary
RetryPolicies ==
    {RetryConfig([maxRetries |-> m, retryableStatusCodes |-> sc])
        : m \in 0..MaxRetriesBound,
          sc \in {DefaultStatusCodes, {}, {404}, {0, 503}}}
    \cup
    {RetryConfig([maxRetries |-> m, retryableErrors |-> re])
        : m \in 0..MaxRetriesBound,
          re \in {{<<"E">>}, {<<"E", "T">>, <<"e">>}, {}, {EmptyString}}}

\* policies whose delay fields vary: initialDelayMs >= 0, maxDelayMs >= 0,
\* backoffMultiplier in {0.5, 1, 1.5, 2}, jitterFraction in {0, 0.1, 0.5, 1}
DelayPolicies ==
    {RetryConfig([initialDelayMs |-> d, maxDelayMs |-> md,
                  backoffMultiplier |-> bm, jitterFraction |-> jf])
        : d \in {0, 1, 7, 1000},
          md \in {0, 5, 30000},
          bm \in {1, MultDen, 3, 2 * MultDen},
          jf \in {0, 1, FracDen \div 2, FracDen}}

PolicyConfigs == {DefaultConfig} \cup RetryPolicies \cup DelayPolicies

PolicyStatuses == {NullStatus, 0, 200, 404, 408, 503}
PolicyErrors ==
    {Failure(c, m, 0) : c \in Strings, m \in Strings} \cup {AbortError(0)}
AttemptNumbers == 0..MaxAttemptNumber \cup {LargeAttemptNumber}

\* a call of one of the policy's methods that has not run yet
PendingCall(op, statusCode, error, attemptNumber, rnd) ==
    [op |-> op, statusCode |-> statusCode, error |-> error,
     attemptNumber |-> attemptNumber, rnd |-> rnd,
     done |-> FALSE, retry |-> Returns(FALSE), delay |-> Number(0)]

PolicyCalls ==
    {PendingCall("shouldRetry", sc, NullError, n, 0)
        : sc \in PolicyStatuses, n \in AttemptNumbers}
    \cup
    {PendingCall("shouldRetry", sc, e, n, 0)
        : sc \in {NullStatus, 503}, e \in PolicyErrors, n \in AttemptNumbers}
    \cup
    {PendingCall("calculateDelay", NullStatus, NullError, n, rnd)
        : n \in AttemptNumbers, rnd \in RandomDraws}

InitPolicy ==
    /\ config \in PolicyConfigs
    /\ inv = << >>
    /\ call \in PolicyCalls
    /\ snapshot = NoSnapshot

\* config.shouldRetry(statusCode, error, attemptNumber)
ShouldRetryCall ==
    /\ call.op = "shouldRetry"
    /\ call' = [call EXCEPT
                  !.done = TRUE,
                  !.retry = ShouldRetry(config, call.statusCode, call.error,
                                        call.attemptNumber)]
    /\ UNCHANGED <<config, inv, snapshot>>

\* config.calculateDelay(attemptNumber)
CalculateDelayCall ==
    /\ call.op = "calculateDelay"
    /\ call' = [call EXCEPT
                  !.done = TRUE,
                  !.delay = CalculateDelay(config, call.attemptNumber, call.rnd)]
    /\ UNCHANGED <<config, inv, snapshot>>

NextPolicy ==
    \/ ShouldRetryCall
    \/ CalculateDelayCall

SpecPolicy == InitPolicy /\ [][NextPolicy]_vars

-----------------------------------------------------------------------------
(* Specification of a caller that uses one policy in every way: it runs
   fetchWithRetry with it, calls one of its methods with the same arguments
   again and again, takes snapshots of it and writes to them *)

CallerConfigs ==
    {RetryConfig([maxRetries |-> m, jitterFraction |-> 0])
        : m \in 1..MaxRetriesBound}

CallerCalls ==
    {PendingCall("shouldRetry", sc, NullError, 0, 0) : sc \in {404, 503}}
    \cup
    {PendingCall("shouldRetry", NullStatus, e, 0, 0) : e \in FetchFailures(0)}
    \cup
    {PendingCall("calculateDelay", NullStatus, NullError, 1, 0)}

InitCaller ==
    /\ config \in CallerConfigs
    /\ inv = [i \in {1} |-> IdleInvocation]
    /\ call \in CallerCalls
    /\ snapshot = NoSnapshot

\* config.getConfig()
GetConfigCall ==
    /\ snapshot' = GetConfig(config)
    /\ UNCHANGED <<config, inv, call>>

\* the writes of the caller to the object getConfig returned
SnapshotWrites ==
    {"maxRetries = 0", "retryableStatusCodes.push(404)",
     "retryableStatusCodes.length = 0", "retryableErrors.push('EBADF')",
     "retryableErrors.length = 0"}

Written(value, write) ==
    CASE write = "maxRetries = 0" -> [value EXCEPT !.maxRetries = 0]
      [] write = "retryableStatusCodes.push(404)" ->
             [value EXCEPT !.retryableStatusCodes = @ \cup {404}]
      [] write = "retryableStatusCodes.length = 0" ->
             [value EXCEPT !.retryableStatusCodes = {}]
      [] write = "retryableErrors.push('EBADF')" ->
             [value EXCEPT !.retryableErrors = @ \cup {EBADF}]
      [] write = "retryableErrors.length = 0" ->
             [value EXCEPT !.retryableErrors = {}]

\* the caller writes to the object getConfig returned; a write to an array
\* is seen through every reference to that array object
MutateSnapshot ==
    /\ snapshot.taken
    /\ \E write \in SnapshotWrites :
          /\ snapshot' = [snapshot EXCEPT !.value = Written(@, write)]
          /\ config' =
                [config EXCEPT
                   !.retryableStatusCodes =
                       IF snapshot.sharesStatusCodes
                       THEN snapshot'.value.retryableStatusCodes ELSE @,
                   !.retryableErrors =
                       IF snapshot.sharesErrors
                       THEN snapshot'.value.retryableErrors ELSE @]
    /\ UNCHANGED <<inv, call>>

NextCaller ==
    \/ \E i \in DOMAIN inv : Invoke(i)
    \/ \E i \in DOMAIN inv : FetchResolve(i)
    \/ \E i \in DOMAIN inv : FetchReject(i)
    \/ \E i \in DOMAIN inv : SleepDone(i)
    \/ \E i \in DOMAIN inv : Abort(i)
    \/ ShouldRetryCall
    \/ CalculateDelayCall
    \/ GetConfigCall
    \/ MutateSnapshot

SpecCaller == InitCaller /\ [][NextCaller]_vars

-----------------------------------------------------------------------------
(* Properties of fetchWithRetry, checked under Spec *)

\* str contains sub as a contiguous, case-sensitive substring
Contains(str, sub) ==
    \E a \in 0..Len(str) : \E b \in a..Len(str) : SubSeq(str, a + 1, b) = sub

\* a transport failure as the attempt capability's interface describes
\* it: its code is a string or absent
IsTransportFailure(error) == error.present /\ error.codeNumber = 0

\* the text of a failure that the markers are matched against
MatchedText(error) == IF Len(error.code) > 0 THEN error.code ELSE error.message

\* the failure matches a configured retryable marker
MatchesMarker(error) ==
    /\ IsTransportFailure(error)
    /\ \E marker \in config.retryableErrors : Contains(MatchedText(error), marker)

\* the outcome of the last completed attempt of invocation s
LastOutcome(s) == s.outcomes[Len(s.outcomes)]

\* C1: an attempt that yields a non-2xx response for which shouldRetry
\* returns false ends the invocation: that very response is the return
\* value, no failure is raised, and no attempt or delay follows, whatever
\* the earlier attempts produced.
C1_NonRetriedResponseReturned ==
    \A i \in DOMAIN inv :
        LET s == inv[i]
            n == Len(s.outcomes)
        IN  (/\ n > 0
             /\ LastOutcome(s).response.present
             /\ ~Ok(LastOutcome(s).response)
             /\ ShouldRetry(config, LastOutcome(s).response.status, NullError, n - 1)
                   = Returns(FALSE))
            => /\ s.pc = "done"
               /\ s.result = Returned(LastOutcome(s).response)
               /\ s.attempts = n
               /\ s.sleeps = n - 1

\* a non-2xx response was returned after an earlier retryable failure and
\* an earlier retryable response
C1_Witness ==
    \E i \in DOMAIN inv :
        LET s == inv[i]
        IN  /\ s.pc = "done"
            /\ Len(s.outcomes) = 3
            /\ s.outcomes[1].error.present
            /\ s.outcomes[2].response.present
            /\ s.result.kind = "return"
            /\ ~Ok(s.result.response)
            /\ s.result.response.id = 3

\* C2: a transport failure raised by attempt i for which shouldRetry returns
\* false is propagated at once: exactly i+1 attempts, no delay and no
\* attempt after it, and no earlier response is returned in its place.
C2_NonRetryableFailurePropagated ==
    \A i \in DOMAIN inv :
        LET s == inv[i]
            n == Len(s.outcomes)
        IN  (/\ n > 0
             /\ LastOutcome(s).error.present
             /\ ShouldRetry(config, NullStatus, LastOutcome(s).error, n - 1)
                   = Returns(FALSE))
            => /\ s.pc = "done"
               /\ s.result = Thrown(LastOutcome(s).error)
               /\ s.attempts = n
               /\ s.sleeps = n - 1

\* a failure matching no marker was propagated although a response of an
\* earlier attempt was recorded and retries were left
C2_Witness ==
    \E i \in DOMAIN inv :
        LET s == inv[i]
        IN  /\ s.pc = "done"
            /\ Len(s.outcomes) > 0
            /\ s.result = Thrown(LastOutcome(s).error)
            /\ IsTransportFailure(s.result.error)
            /\ ~MatchesMarker(s.result.error)
            /\ s.lastResponse.present
            /\ Len(s.outcomes) <= config.maxRetries
            /\ s.attempts = Len(s.outcomes)

\* C3: when every attempt raises a failure matching a retryable marker, the
\* invocation makes exactly maxRetries+1 attempts and then propagates the
\* failure of the last attempt.
C3_RetryableFailuresExhaustBudget ==
    \A i \in DOMAIN inv :
        LET s == inv[i]
            n == Len(s.outcomes)
        IN  (/\ s.pc = "done"
             /\ \A k \in 1..n : /\ s.outcomes[k].error.present
                                /\ MatchesMarker(s.outcomes[k].error))
            => /\ s.attempts = config.maxRetries + 1
               /\ n = config.maxRetries + 1
               /\ s.result = Thrown(LastOutcome(s).error)

\* three attempts all raised a retryable failure and the last was propagated
C3_Witness ==
    \E i \in DOMAIN inv :
        LET s == inv[i]
        IN  /\ s.pc = "done"
            /\ config.maxRetries >= 2
            /\ Len(s.outcomes) = config.maxRetries + 1
            /\ \A k \in 1..Len(s.outcomes) : /\ s.outcomes[k].error.present
                                             /\ MatchesMarker(s.outcomes[k].error)
            /\ s.result.kind = "throw"
            /\ s.result.error.id = config.maxRetries + 1

\* C4: when every attempt returns a non-2xx response whose status is in
\* retryableStatusCodes, the invocation makes exactly maxRetries+1 attempts,
\* sleeps maxRetries times and returns the response of the last attempt.
C4_RetryableResponsesExhaustBudget ==
    \A i \in DOMAIN inv :
        LET s == inv[i]
            n == Len(s.outcomes)
        IN  (/\ s.pc = "done"
             /\ \A k \in 1..n :
                   /\ s.outcomes[k].response.present
                   /\ ~Ok(s.outcomes[k].response)
                   /\ s.outcomes[k].response.status \in config.retryableStatusCodes)
            => /\ s.attempts = config.maxRetries + 1
               /\ n = config.maxRetries + 1
               /\ s.sleeps = config.maxRetries
               /\ s.result = Returned(LastOutcome(s).response)

\* C5: the first attempt that yields a 2xx response ends the invocation:
\* that response is returned, shouldRetry is not asked about it, and no
\* attempt or delay follows; a 2xx on the first attempt means one attempt
\* and no delay.
C5_SuccessReturnedImmediately ==
    \A i \in DOMAIN inv :
        LET s == inv[i]
            n == Len(s.outcomes)
        IN  (/\ n > 0
             /\ LastOutcome(s).response.present
             /\ Ok(LastOutcome(s).response))
            => /\ s.pc = "done"
               /\ s.result = Returned(LastOutcome(s).response)
               /\ s.attempts = n
               /\ s.sleeps = n - 1
               /\ s.retryChecks = n - 1

\* a 200 was returned from the first attempt, with retries left, by a policy
\* that lists 200 as retryable
C5_Witness ==
    \E i \in DOMAIN inv :
        LET s == inv[i]
        IN  /\ s.pc = "done"
            /\ Len(s.outcomes) = 1
            /\ s.result.kind = "return"
            /\ Ok(s.result.response)
            /\ s.result.response.status \in config.retryableStatusCodes
            /\ config.maxRetries > 0
            /\ s.attempts = 1
            /\ s.sleeps = 0

\* C6: the attempt index never exceeds maxRetries and the number of
\* attempts made never exceeds maxRetries+1.
C6_AttemptIndexBounded ==
    \A i \in DOMAIN inv :
        /\ inv[i].attempt <= config.maxRetries
        /\ inv[i].attempts <= config.maxRetries + 1

\* the whole budget was used: the last attempt had index maxRetries
C6_Witness ==
    \E i \in DOMAIN inv :
        /\ inv[i].pc = "done"
        /\ config.maxRetries >= 1
        /\ inv[i].attempt = config.maxRetries
        /\ inv[i].attempts = config.maxRetries + 1

-----------------------------------------------------------------------------
(* Properties of RetryConfig, checked under SpecPolicy *)

ShouldRetryReturned == call.op = "shouldRetry" /\ call.done
CalculateDelayReturned == call.op = "calculateDelay" /\ call.done

\* C7: shouldRetry returns false whenever attemptNumber >= maxRetries, for
\* every status and every failure, retryable ones included.
C7_ExhaustedBudgetNeverRetries ==
    (ShouldRetryReturned /\ call.attemptNumber >= config.maxRetries)
        => call.retry = Returns(FALSE)

\* shouldRetry was called at attemptNumber = maxRetries with a failure that
\* matches a marker, and with a status that is in retryableStatusCodes
C7_Witness ==
    /\ ShouldRetryReturned
    /\ call.attemptNumber = config.maxRetries
    /\ call.error.present
    /\ MatchesMarker(call.error)
    /\ call.statusCode \in config.retryableStatusCodes
    /\ call.retry = Returns(FALSE)

\* C8: for attemptNumber < maxRetries and no failure, shouldRetry is true
\* exactly when the status is a member of retryableStatusCodes, and false
\* when no status is present.
C8_StatusRetryableIffMember ==
    (/\ ShouldRetryReturned
     /\ ~call.error.present
     /\ call.attemptNumber < config.maxRetries)
        => call.retry = Returns(/\ call.statusCode # NullStatus
                                /\ call.statusCode \in config.retryableStatusCodes)

\* C9: for attemptNumber < maxRetries and a failure, shouldRetry is true
\* exactly when the failure's code, or its message when the code is empty,
\* contains a retryable marker as a case-sensitive substring; the message
\* is not looked at when the code is non-empty.
C9_FailureRetryableIffMarkerMatches ==
    (/\ ShouldRetryReturned
     /\ IsTransportFailure(call.error)
     /\ call.statusCode = NullStatus
     /\ call.attemptNumber < config.maxRetries)
        => call.retry = Returns(MatchesMarker(call.error))

\* a failure whose non-empty code matches no marker was not retried
\* although its message contains a marker
C9_Witness ==
    /\ ShouldRetryReturned
    /\ IsTransportFailure(call.error)
    /\ call.statusCode = NullStatus
    /\ call.attemptNumber < config.maxRetries
    /\ Len(call.error.code) > 0
    /\ \E marker \in config.retryableErrors : Contains(call.error.message, marker)
    /\ \A marker \in config.retryableErrors : ~Contains(call.error.code, marker)
    /\ call.retry = Returns(FALSE)

\* C10: calculateDelay returns an integer between 0 and
\* maxDelayMs * (1 + jitterFraction), for every attemptNumber >= 0.
C10_DelayWithinBounds ==
    CalculateDelayReturned
        => /\ ~call.delay.isNaN
           /\ call.delay.value \in Nat
           /\ call.delay.value * FracDen
                 <= config.maxDelayMs * (FracDen + config.jitterFraction)

\* floor(min(initialDelayMs * backoffMultiplier^n, maxDelayMs)) over the
\* reals.  Beyond MaxAttemptNumber the power is not computed: the product
\* is 0 for initialDelayMs = 0, initialDelayMs for the multiplier 1, above
\* maxDelayMs for a multiplier > 1 and below 1 for a multiplier < 1.
CappedExponentialFloor(cfg, n) ==
    IF n <= MaxAttemptNumber
    THEN Min(cfg.initialDelayMs * Pow(cfg.backoffMultiplier, n),
             cfg.maxDelayMs * Pow(MultDen, n)) \div Pow(MultDen, n)
    ELSE IF cfg.initialDelayMs = 0 THEN 0
    ELSE IF cfg.backoffMultiplier = MultDen
         THEN Min(cfg.initialDelayMs, cfg.maxDelayMs)
    ELSE IF cfg.backoffMultiplier > MultDen THEN cfg.maxDelayMs
    ELSE 0

\* C11: with jitterFraction = 0, calculateDelay(n) equals
\* floor(min(initialDelayMs * backoffMultiplier^n, maxDelayMs)) for every
\* n >= 0, whatever the random draw.
C11_NoJitterDelayIsCappedExponential ==
    (CalculateDelayReturned /\ config.jitterFraction = 0)
        => call.delay = Number(CappedExponentialFloor(config, call.attemptNumber))

-----------------------------------------------------------------------------
(* Properties of fetchWithRetry under cancellation, checked under Spec *)

\* C12: when options.signal is aborted during an attempt or during a
\* delay, the invocation does not return a response and makes no attempt
\* after the one that is rejected for the abort, and it ends by propagating
\* the cancellation failure.
C12_AbortPropagatesCancellation ==
    \A i \in DOMAIN inv :
        LET s == inv[i]
        IN  (s.aborted /\ s.pc = "done")
            => /\ LastOutcome(s).error = AbortError(s.attempts)
               /\ s.result = Thrown(AbortError(s.attempts))

-----------------------------------------------------------------------------
(* Properties of concurrent invocations, checked under SpecConcurrent *)

\* the invocation run on its own with policy cfg from state s, its attempts
\* producing the given outcomes in order
RECURSIVE RunAlone(_, _, _)
RunAlone(cfg, s, outcomes) ==
    IF outcomes = << >> \/ s.pc = "done"
    THEN s
    ELSE LET f == IF s.pc = "sleeping" THEN StartFetch(s) ELSE s
             o == Head(outcomes)
             t == IF o.response.present
                  THEN OnResponse(cfg, f, o.response, 0)
                  ELSE OnError(cfg, f, o.error, 0)
         IN  RunAlone(cfg, t, Tail(outcomes))

\* the point of the run on its own that corresponds to invocation s
AloneAt(cfg, s) ==
    LET a == RunAlone(cfg, LoopHead(cfg, IdleInvocation, 0), s.outcomes)
    IN  IF a.pc = "sleeping" /\ s.pc = "fetching" THEN StartFetch(a) ELSE a

\* invocation s is where the same invocation run on its own would be
AsIfAlone(cfg, s) ==
    s.pc # "idle"
        => LET a == AloneAt(cfg, s)
           IN  /\ a.pc = s.pc
               /\ a.outcomes = s.outcomes
               /\ a.attempts = s.attempts
               /\ a.sleeps = s.sleeps
               /\ a.result = s.result

\* C13: with several invocations sharing one RetryConfig, every step
\* leaves the shared policy unmodified, changes the state of at most one
\* invocation, and leaves each invocation with the attempt count, the delay
\* count and the terminal outcome it would have if it ran alone on its own
\* sequence of attempt outcomes.
C13_ConcurrentInvocationsIndependent ==
    [][/\ config' = config
       /\ \A i, j \in DOMAIN inv :
              i # j => (inv'[i] = inv[i] \/ inv'[j] = inv[j])
       /\ \A i \in DOMAIN inv : AsIfAlone(config', inv'[i])]_vars

\* both invocations are suspended in the middle of their runs, one in a
\* delay and one in an attempt, with different attempt counts
C13_Witness ==
    /\ DOMAIN inv = {1, 2}
    /\ inv[1].pc = "sleeping"
    /\ inv[2].pc = "fetching"
    /\ inv[1].attempts = 1
    /\ inv[2].attempts = 2

-----------------------------------------------------------------------------
(* Termination of fetchWithRetry, checked under SpecLive *)

\* invocation s has ended by returning a response
EndedByReturn(s) ==
    /\ s.pc = "done"
    /\ s.result.kind = "return"
    /\ s.result.response.present
    /\ ~s.result.error.present

\* invocation s has ended by propagating a failure
EndedByThrow(s) ==
    /\ s.pc = "done"
    /\ s.result.kind = "throw"
    /\ s.result.error.present
    /\ ~s.result.response.present

\* C14: provided every attempt and every delay eventually completes, an
\* invocation that has been called eventually ends, and it ends either by
\* returning a response or by propagating a failure, never with neither.
C14_InvocationTerminates ==
    (\E i \in DOMAIN inv : inv[i].pc # "idle")
        ~> (\A i \in DOMAIN inv : EndedByReturn(inv[i]) \/ EndedByThrow(inv[i]))

\* an invocation has ended after all its retries and delays
C14_Witness ==
    \E i \in DOMAIN inv :
        /\ EndedByThrow(inv[i])
        /\ inv[i].attempts = config.maxRetries + 1
        /\ inv[i].sleeps = config.maxRetries
        /\ config.maxRetries = MaxRetriesBound

-----------------------------------------------------------------------------
(* Properties of the policy under use, checked under SpecCaller *)

\* the names of the seven configuration fields
ConfigFields ==
    {"maxRetries", "initialDelayMs", "maxDelayMs", "backoffMultiplier",
     "jitterFraction", "retryableStatusCodes", "retryableErrors"}

\* the results the caller has got from the policy stay what they are
SameResults ==
    call.done => (call'.retry = call.retry /\ call'.delay = call.delay)

\* C15: getConfig returns all seven fields with the values of the
\* policy, and once the caller holds the returned mapping no step, a write
\* to the mapping that adds or removes list elements included, changes the
\* policy's configuration or what a repeated shouldRetry or calculateDelay
\* call with the same arguments returns.
C15_SnapshotIndependent ==
    [][/\ (~snapshot.taken /\ snapshot'.taken)
          => /\ DOMAIN snapshot'.value = ConfigFields
             /\ \A f \in ConfigFields : snapshot'.value[f] = config[f]
       /\ snapshot.taken => (config' = config /\ SameResults)]_vars

\* the caller has emptied both lists of the snapshot and set its maxRetries
\* to 0 while the policy, asked about status 503 at attempt 0, says retry
C15_Witness ==
    /\ snapshot.taken
    /\ snapshot.value.retryableStatusCodes = {}
    /\ snapshot.value.retryableErrors = {}
    /\ snapshot.value.maxRetries = 0
    /\ config.retryableStatusCodes = DefaultStatusCodes
    /\ call.op = "shouldRetry" /\ call.done /\ call.statusCode = 503
    /\ call.retry = Returns(TRUE)

\* C16: no call of shouldRetry, calculateDelay or getConfig and no step
\* of a fetchWithRetry invocation changes the policy's configuration, and a
\* shouldRetry call with the same arguments returns the same result whatever
\* was called in between.
C16_ConfigImmutable ==
    [][config' = config /\ SameResults]_vars

\* the policy has been asked, a snapshot taken, and an invocation that
\* retried has ended
C16_Witness ==
    /\ call.op = "shouldRetry" /\ call.done
    /\ snapshot.taken
    /\ \E i \in DOMAIN inv : inv[i].pc = "done" /\ inv[i].retryChecks >= 2

-----------------------------------------------------------------------------
(* Order of attempts and delays in fetchWithRetry, checked under Spec *)

\* the delays of invocation s that have elapsed
DelaysPerformed(s) == IF s.pc = "sleeping" THEN s.sleeps - 1 ELSE s.sleeps

\* C17: a delay starts only when an attempt has just failed and is
\* followed at once by the next attempt, of index k > 0; its duration is
\* calculateDelay(k - 1); and at every point of a running or ended
\* invocation the delays performed are the attempts started minus one, so
\* that no delay precedes the first attempt or follows the last.
C17_DelayBeforeEachRetryOnly ==
    [][\A i \in DOMAIN inv :
          LET s == inv[i]
              t == inv'[i]
          IN  /\ t.pc # "idle" => DelaysPerformed(t) = t.attempts - 1
              /\ t.sleeps > s.sleeps
                    => /\ s.pc = "fetching" /\ t.pc = "sleeping"
                       /\ t.sleeps = s.sleeps + 1
                       /\ t.attempts >= 1
                       /\ \E rnd \in RandomDraws :
                             t.delayMs = CalculateDelay(config, t.attempts - 1, rnd)
              /\ (s.pc = "sleeping" /\ t.pc # "sleeping")
                    => (t.pc = "fetching" /\ t.attempts = s.attempts + 1)]_vars

\* with the default policy the invocation sleeps before its third attempt
\* for calculateDelay(1), a duration that calculateDelay(2) never has
C17_Witness ==
    \E i \in DOMAIN inv :
        /\ config = DefaultConfig
        /\ inv[i].pc = "sleeping"
        /\ inv[i].attempts = 2
        /\ \E rnd \in RandomDraws :
              inv[i].delayMs = CalculateDelay(config, 1, rnd)
        /\ \A rnd \in RandomDraws :
              inv[i].delayMs # CalculateDelay(config, 2, rnd)


\* the attempts of invocation s that are in flight
InFlight(s) == s.attempts - Len(s.outcomes)

\* shouldRetry has been asked about the last completed attempt of s and
\* has returned true
RetryDecisionTaken(s) ==
    LET o == LastOutcome(s)
        k == Len(s.outcomes) - 1
    IN  /\ s.retryChecks = Len(s.outcomes)
        /\ IF o.error.present
           THEN ShouldRetry(config, NullStatus, o.error, k) = Returns(TRUE)
           ELSE /\ ~Ok(o.response)
                /\ ShouldRetry(config, o.response.status, NullError, k)
                       = Returns(TRUE)

\* C18: an invocation has at most one attempt in flight, and an attempt
\* after the first starts only in a step in which the delay elapses, when
\* every earlier attempt has completed and shouldRetry has returned true
\* for the last of them.
C18_AttemptsSequential ==
    [][\A i \in DOMAIN inv :
          LET s == inv[i]
              t == inv'[i]
          IN  /\ InFlight(t) = (IF t.pc = "fetching" THEN 1 ELSE 0)
              /\ t.attempts > s.attempts
                    => /\ t.attempts = s.attempts + 1
                       /\ InFlight(s) = 0
                       /\ s.attempts >= 1
                             => (s.pc = "sleeping" /\ RetryDecisionTaken(s))]_vars

\* the third attempt is in flight after a retried response and a retried
\* failure
C18_Witness ==
    \E i \in DOMAIN inv :
        /\ inv[i].pc = "fetching"
        /\ inv[i].attempts = 3
        /\ inv[i].outcomes[1].response.present
        /\ inv[i].outcomes[2].error.present

-----------------------------------------------------------------------------
(* Properties of fetchWithRetry for any policy, checked under SpecAnyConfig *)

\* C19: every invocation that has ended has executed at least one
\* attempt and has not ended by propagating the generic failure
\* 'Fetch failed after all retries', whatever the policy and the outcomes
\* of the attempts.
C19_FallbackUnreachable ==
    \A i \in DOMAIN inv :
        inv[i].pc = "done"
            => /\ inv[i].attempts >= 1
               /\ inv[i].result # Thrown(GenericError)

-----------------------------------------------------------------------------
(* Terminal outcome of fetchWithRetry, checked under Spec *)

\* C20: an invocation that has ended after at least one attempt returns
\* the response of its last attempt if that attempt yielded a response and
\* propagates the failure of its last attempt if that attempt raised one,
\* never a response or a failure recorded from an earlier attempt.
C20_TerminalOutcomeIsLastAttempt ==
    \A i \in DOMAIN inv :
        LET s == inv[i]
        IN  (s.pc = "done" /\ Len(s.outcomes) > 0)
            => IF LastOutcome(s).response.present
               THEN s.result = Returned(LastOutcome(s).response)
               ELSE s.result = Thrown(LastOutcome(s).error)

====
